---- MODULE Spec2Model ----
(***************************************************************************)
(* runbot/container.py: helpers that containerize builds with Docker       *)
(* (docker_run, docker_stop, docker_build) and the module's self-test      *)
(* (__main__) with its lock-file helpers lock / locked / pfn.              *)
(*                                                                         *)
(* Python strings are TLA+ strings, lists are sequences.  A Python value   *)
(* that is tested for truth and formatted with %s is a record              *)
(* [t |-> type, s |-> str(value)].                                         *)
(*                                                                         *)
(* Four specifications share the state:                                    *)
(*   SpecApi   any sequence of docker_run / docker_stop / docker_build     *)
(*             calls against the docker engine;                            *)
(*   SpecCmd   one docker_run call, its arguments drawn from wide sets;    *)
(*   SpecLock  the main process probing with locked() while forked         *)
(*             children run lock() in their pre-exec hook;                 *)
(*   SpecMain  the self-test, line by line.                                *)
(***************************************************************************)
EXTENDS Integers, Sequences, FiniteSets, TLC

VARIABLES
    pc,          \* position of the calling (main) process
    frame,       \* locals of the docker_run call in progress
    last,        \* outcome of the last completed docker_* call
    recipe,      \* whether <package>/data/Dockerfile exists
    dirs,        \* directories created so far, as <<build_dir, subdir>>
    dockerfile,  \* build dirs whose docker/ subdirectory holds the Dockerfile
    running,     \* names of the containers the engine is running
    proc,        \* the spawned child processes, by pid
    nextPid,     \* pid the next fork returns
    issued,      \* docker subcommands issued so far
    lastBuild,   \* the last `docker build` request: argv and cwd
    holder,      \* per lock file, the set of processes holding its lock
    probe,       \* locals of the locked() call of the main process
    argv,        \* sys.argv of the self-test
    container_name,  \* the self-test's variable of that name
    exitStatus,  \* exit status of the self-test, -1 while it runs
    errlog       \* messages logged at error level

vars == <<pc, frame, last, recipe, dirs, dockerfile, running, proc, nextPid,
          issued, lastBuild, holder, probe, argv, container_name, exitStatus,
          errlog>>

----------------------------------------------------------------------------
(* Bounds *)

\* most children forked in one behaviour of SpecApi / SpecLock
MaxRuns == 2
\* most tokens of an odoo_cmd drawn in SpecApi
MaxTokens == 2
\* largest len(sys.argv) tried
MaxArgc == 6

----------------------------------------------------------------------------
(* Values *)

\* pid slots; the self-test forks three children, whatever MaxRuns is
Pids == 1..(MaxRuns + 2)
\* the main process, which is never a child
MainPid == 0

BuildDirs == {"/tmp/b", "/tmp/c"}
Names == {"t1", "t2"}
Tokens == {"-i", "-d db"}
OdooCmds == UNION {[1..n -> Tokens] : n \in 0..MaxTokens}

PyNone == [t |-> "none", s |-> "None"]
PyInt(s) == [t |-> "int", s |-> s]
PyStr(s) == [t |-> "str", s |-> s]
\* truth value of a Python object: None, 0 and '' are false
Truthy(v) ==
    CASE v.t = "none" -> FALSE
      [] v.t = "int"  -> v.s # "0"
      [] v.t = "str"  -> v.s # ""
\* '%s' % v
Fmt(v) == v.s

Ports == {PyNone, PyInt("0"), PyInt("8069"), PyStr("8070")}
CpuLimits == {PyNone, PyInt("300")}

\* sep.join(seq)
RECURSIVE Join(_, _)
Join(sep, seq) ==
    IF Len(seq) = 0 THEN ""
    ELSE IF Len(seq) = 1 THEN seq[1]
    ELSE seq[1] \o sep \o Join(sep, Tail(seq))

\* os.path.join(a, b)
PathJoin(a, b) == a \o "/" \o b

CdStep == "cd /data/build"
InstallStep == "head -1 odoo-bin | grep -q python3 && sudo pip3 install -r requirements.txt || sudo pip install -r requirements.txt"
ChainSep == " && "
ImageTag == "odoo:runbot_tests"

RunCmd_NoSpaces(odoo_cmd) ==
    Join(ChainSep, <<CdStep, InstallStep, Join("", odoo_cmd)>>)
\* docker_run: the in-container command line
RunCmd(odoo_cmd) ==
    LET cmd_chain == <<CdStep, InstallStep, Join(" ", odoo_cmd)>>
    IN  Join(ChainSep, cmd_chain)

\* docker_run: `if exposed_port:`
PortTest(exposed_port) == Truthy(exposed_port)

\* docker_run: the docker launch argument vector
DockerCommand(build_dir, name, exposed_port, cpu_limit, run_cmd) ==
    <<"docker", "run", "--rm", "--name", name,
      "--volume=/var/run/postgresql:/var/run/postgresql",
      "--volume=" \o build_dir \o ":/data/build">>
    \o (IF PortTest(exposed_port)
        THEN <<"-p", "127.0.0.1:" \o Fmt(exposed_port) \o ":8069">> ELSE <<>>)
    \o (IF Truthy(cpu_limit)
        THEN <<"--ulimit", "cpu=" \o Fmt(cpu_limit)>> ELSE <<>>)
    \o <<ImageTag, "/bin/bash", "-c", run_cmd>>

NoFrame ==
    [build_dir |-> "", odoo_cmd |-> <<>>, container_name |-> "",
     exposed_port |-> PyNone, cpu_limit |-> PyNone, preexec |-> FALSE,
     run_cmd |-> "", build_rc |-> 0, docker_command |-> <<>>, pid |-> 0,
     ret |-> "", fail |-> ""]

NoProc == [st |-> "none", name |-> "", pre |-> FALSE, path |-> ""]
NoLast == [op |-> "", arg |-> "", raised |-> "", pid |-> 0]
NoBuild == [argv |-> <<>>, cwd |-> ""]
NoProbe == [pc |-> "idle", path |-> "", fd |-> FALSE, result |-> FALSE]

LockPaths == {PathJoin(PathJoin(b, "logs"), "lock.txt") : b \in BuildDirs}

----------------------------------------------------------------------------
(* subprocess *)

\* subprocess.run(..., check=check): whether the call raises CalledProcessError
RunRaises(check, rc) == check /\ rc # 0

DockerStopCheck_Unchecked == FALSE
\* docker_stop passes check=True
DockerStopCheck == TRUE

\* docker_run and docker_build pass no check argument (default False)
DockerBuildCheck == FALSE

PopenDone_Wait(st) == st = "exited"
\* Popen returns once the child has exec'd, or has closed the error pipe
\* (pfn's closerange does), or has died: it never waits for the exit
PopenDone(st) == st # "forked"

\* the locks every process of ps held are dropped when it exits
Release(h, ps) == [f \in DOMAIN h |-> h[f] \ ps]

\* control passes to `target`; "crashed" is an uncaught exception
Goto(target) ==
    /\ pc' = target
    /\ exitStatus' = IF target = "crashed" THEN 1 ELSE exitStatus

Outcome(op, arg, exc, pid) == [op |-> op, arg |-> arg, raised |-> exc, pid |-> pid]

----------------------------------------------------------------------------
(* docker_run *)

\* lines 38-45: build run_cmd, open the log file
DockerRunEnter(build_dir, odoo_cmd, name, exposed_port, cpu_limit, preexec, ret, fail) ==
    /\ \E logOk \in BOOLEAN :
        IF logOk
        THEN /\ frame' = [NoFrame EXCEPT !.build_dir = build_dir,
                              !.odoo_cmd = odoo_cmd,
                              !.container_name = name,
                              !.exposed_port = exposed_port,
                              !.cpu_limit = cpu_limit, !.preexec = preexec,
                              !.run_cmd = RunCmd(odoo_cmd),
                              !.ret = ret, !.fail = fail]
             /\ Goto("run_prepare")
             /\ UNCHANGED last
        ELSE /\ frame' = NoFrame
             /\ Goto(fail)
             /\ last' = Outcome("docker_run", name, "OSError", 0)
    /\ UNCHANGED <<recipe, dirs, dockerfile, running, proc, nextPid, issued,
                   lastBuild, holder, probe, argv, container_name, errlog>>

\* lines 48-50: makedirs(docker_dir), copy the Dockerfile into it
DockerRunPrepare ==
    /\ pc = "run_prepare"
    /\ dirs' = dirs \cup {<<frame.build_dir, "docker">>}
    /\ IF recipe
       THEN /\ dockerfile' = dockerfile \cup {frame.build_dir}
            /\ Goto("run_build")
            /\ UNCHANGED <<frame, last>>
       ELSE /\ Goto(frame.fail)
            /\ last' = Outcome("docker_run", frame.container_name,
                               "FileNotFoundError", 0)
            /\ frame' = NoFrame
            /\ UNCHANGED dockerfile
    /\ UNCHANGED <<recipe, running, proc, nextPid, issued, lastBuild, holder,
                   probe, argv, container_name, errlog>>

\* line 51: subprocess.run(['docker', 'build', ...], cwd=docker_dir), which
\* blocks until the build ends with exit status rc
DockerRunBuild ==
    /\ pc = "run_build"
    /\ issued' = issued \cup {"build"}
    /\ lastBuild' = [argv |-> <<"docker", "build", "--tag", ImageTag, ".">>,
                     cwd |-> PathJoin(frame.build_dir, "docker")]
    /\ \E rc \in {0, 1} :
        IF RunRaises(DockerBuildCheck, rc)
        THEN /\ Goto(frame.fail)
             /\ last' = Outcome("docker_run", frame.container_name,
                                "CalledProcessError", 0)
             /\ frame' = NoFrame
        ELSE /\ Goto("run_launch")
             /\ frame' = [frame EXCEPT !.build_rc = rc]
             /\ UNCHANGED last
    /\ UNCHANGED <<recipe, dirs, dockerfile, running, proc, nextPid, holder,
                   probe, argv, container_name, errlog>>

\* lines 54-65: assemble docker_command and fork the child (Popen)
DockerRunLaunch ==
    /\ pc = "run_launch"
    /\ nextPid \in Pids
    /\ frame' = [frame EXCEPT
                    !.docker_command =
                        DockerCommand(frame.build_dir, frame.container_name,
                                      frame.exposed_port, frame.cpu_limit,
                                      frame.run_cmd),
                    !.pid = nextPid]
    /\ proc' = [proc EXCEPT ![nextPid] =
                    [st |-> "forked", name |-> frame.container_name,
                     pre |-> frame.preexec,
                     path |-> IF frame.preexec
                              THEN PathJoin(PathJoin(frame.build_dir, "logs"),
                                            "lock.txt")
                              ELSE ""]]
    /\ nextPid' = nextPid + 1
    /\ issued' = issued \cup {"run"}
    /\ Goto("run_started")
    /\ UNCHANGED <<last, recipe, dirs, dockerfile, running, lastBuild, holder,
                   probe, argv, container_name, errlog>>

\* lines 65-67: Popen returns, docker_run returns the pid
DockerRunReturn ==
    /\ pc = "run_started"
    /\ PopenDone(proc[frame.pid].st)
    /\ last' = Outcome("docker_run", frame.container_name, "", frame.pid)
    /\ Goto(frame.ret)
    /\ frame' = NoFrame
    /\ UNCHANGED <<recipe, dirs, dockerfile, running, proc, nextPid, issued,
                   lastBuild, holder, probe, argv, container_name, errlog>>

RunPcs == {"run_prepare", "run_build", "run_launch", "run_started"}

----------------------------------------------------------------------------
(* docker_stop, docker_build *)

\* `docker stop NAME`: exit status 0 when NAME is running, else 1
EngineStopRc(name) == IF name \in running THEN 0 ELSE 1

\* the docker clients attached to name
Attached(name) ==
    {p \in Pids : proc[p].st = "running" /\ proc[p].name = name}

\* lines 69-72; control resumes at `ret`, or at `fail` when the call raises
DockerStop(name, ret, fail) ==
    /\ issued' = issued \cup {"stop"}
    /\ IF RunRaises(DockerStopCheck, EngineStopRc(name))
       THEN /\ Goto(fail)
            /\ last' = Outcome("docker_stop", name,
                               "CalledProcessError", 0)
            /\ UNCHANGED <<running, proc, holder>>
       ELSE /\ Goto(ret)
            /\ last' = Outcome("docker_stop", name, "", 0)
            /\ running' = running \ {name}
            /\ proc' = [p \in Pids |->
                          IF p \in Attached(name)
                          THEN [proc[p] EXCEPT !.st = "exited"] ELSE proc[p]]
            /\ holder' = Release(holder, Attached(name))
    /\ UNCHANGED <<frame, recipe, dirs, dockerfile, nextPid, lastBuild, probe,
                   argv, container_name, errlog>>

\* `docker build --tag TAG` without a PATH argument is a usage error
EngineBuildNoPathRc == 1

\* lines 74-77: docker_file_path is not used
DockerBuild(docker_file_path, ret, fail) ==
    /\ issued' = issued \cup {"build"}
    /\ lastBuild' = [argv |-> <<"docker", "build", "--tag", ImageTag>>,
                     cwd |-> "."]
    /\ IF RunRaises(DockerBuildCheck, EngineBuildNoPathRc)
       THEN /\ Goto(fail)
            /\ last' = Outcome("docker_build", docker_file_path,
                               "CalledProcessError", 0)
       ELSE /\ Goto(ret)
            /\ last' = Outcome("docker_build", docker_file_path, "", 0)
    /\ UNCHANGED <<frame, recipe, dirs, dockerfile, running, proc, nextPid,
                   holder, probe, argv, container_name, errlog>>

----------------------------------------------------------------------------
(* The forked child, and the docker client it becomes *)

\* pfn, lines 142-144: setsid, closerange(3, ...) which also closes the pipe
\* Popen waits on
ChildPfnDetach(p) ==
    /\ proc[p].st = "forked"
    /\ proc[p].pre
    /\ proc' = [proc EXCEPT ![p].st = "detached"]
    /\ UNCHANGED <<pc, frame, last, recipe, dirs, dockerfile, running, nextPid,
                   issued, lastBuild, holder, probe, argv, container_name, exitStatus, errlog>>

\* lockf(fd, LOCK_EX | LOCK_NB) by process p fails when another process holds
LockfFails(h, p) == h \ {p} # {}

\* pfn, line 145: lock(lock_path); the descriptor stays open, so the lock
\* lasts as long as the process.  A failure is an exception in the pre-exec
\* hook: the child exits without exec'ing docker.
ChildPfnLock(p) ==
    /\ proc[p].st = "detached"
    /\ IF LockfFails(holder[proc[p].path], p)
       THEN /\ proc' = [proc EXCEPT ![p].st = "exited"]
            /\ UNCHANGED holder
       ELSE /\ proc' = [proc EXCEPT ![p].st = "hooked"]
            /\ holder' = [holder EXCEPT ![proc[p].path] = @ \cup {p}]
    /\ UNCHANGED <<pc, frame, last, recipe, dirs, dockerfile, running, nextPid,
                   issued, lastBuild, probe, argv, container_name, exitStatus, errlog>>

\* the child exec's `docker run ...`
ChildExec(p) ==
    /\ \/ proc[p].st = "forked" /\ ~proc[p].pre
       \/ proc[p].st = "hooked"
    /\ proc' = [proc EXCEPT ![p].st = "spawned"]
    /\ UNCHANGED <<pc, frame, last, recipe, dirs, dockerfile, running, nextPid,
                   issued, lastBuild, holder, probe, argv, container_name, exitStatus, errlog>>

\* the engine starts the container; names are unique among running ones
ClientStart(p) ==
    /\ proc[p].st = "spawned"
    /\ proc[p].name \notin running
    /\ running' = running \cup {proc[p].name}
    /\ proc' = [proc EXCEPT ![p].st = "running"]
    /\ UNCHANGED <<pc, frame, last, recipe, dirs, dockerfile, nextPid, issued,
                   lastBuild, holder, probe, argv, container_name, exitStatus, errlog>>

\* the docker client ends without a container: name conflict, no image, killed
ClientFail(p) ==
    /\ proc[p].st = "spawned"
    /\ proc' = [proc EXCEPT ![p].st = "exited"]
    /\ holder' = Release(holder, {p})
    /\ UNCHANGED <<pc, frame, last, recipe, dirs, dockerfile, running, nextPid,
                   issued, lastBuild, probe, argv, container_name, exitStatus, errlog>>

\* the container's command ends; --rm removes it and the client exits
ContainerExit(p) ==
    /\ proc[p].st = "running"
    /\ running' = running \ {proc[p].name}
    /\ proc' = [proc EXCEPT ![p].st = "exited"]
    /\ holder' = Release(holder, {p})
    /\ UNCHANGED <<pc, frame, last, recipe, dirs, dockerfile, nextPid, issued,
                   lastBuild, probe, argv, container_name, exitStatus, errlog>>

----------------------------------------------------------------------------
(* locked(filename), called by the main process *)

\* lines 127-131: result = False; os.open, and `return False` when it fails
ProbeOpen(filename) ==
    /\ probe.pc = "idle"
    /\ \E opened \in BOOLEAN :
        probe' = [pc |-> IF opened THEN "opened" ELSE "done",
                  path |-> filename, fd |-> opened, result |-> FALSE]
    /\ UNCHANGED <<pc, frame, last, recipe, dirs, dockerfile, running, proc,
                   nextPid, issued, lastBuild, holder, argv, container_name, exitStatus, errlog>>

ProbeBusyResult_Unset == FALSE
\* line 135: result = True
ProbeBusyResult == TRUE

\* lines 132-135: the non-blocking exclusive lockf
ProbeLockf ==
    /\ probe.pc = "opened"
    /\ IF LockfFails(holder[probe.path], MainPid)
       THEN /\ probe' = [probe EXCEPT !.pc = "busy", !.result = ProbeBusyResult]
            /\ UNCHANGED holder
       ELSE /\ probe' = [probe EXCEPT !.pc = "acquired"]
            /\ holder' = [holder EXCEPT ![probe.path] = @ \cup {MainPid}]
    /\ UNCHANGED <<pc, frame, last, recipe, dirs, dockerfile, running, proc,
                   nextPid, issued, lastBuild, argv, container_name, exitStatus, errlog>>

CloseFd_Leak(h, filename, p) == h
\* os.close(fd) drops the lock process p holds on the file
CloseFd(h, filename, p) == [h EXCEPT ![filename] = @ \ {p}]

\* lines 136-138: finally os.close(fd); return result
ProbeClose ==
    /\ probe.pc \in {"acquired", "busy"}
    /\ holder' = CloseFd(holder, probe.path, MainPid)
    /\ probe' = [probe EXCEPT !.pc = "done"]
    /\ UNCHANGED <<pc, frame, last, recipe, dirs, dockerfile, running, proc,
                   nextPid, issued, lastBuild, argv, container_name, exitStatus, errlog>>

----------------------------------------------------------------------------
(* SpecApi: any sequence of calls *)

InitCommon ==
    /\ frame = NoFrame
    /\ last = NoLast
    /\ dirs = {}
    /\ dockerfile = {}
    /\ running = {}
    /\ proc = [p \in Pids |-> NoProc]
    /\ nextPid = 1
    /\ issued = {}
    /\ lastBuild = NoBuild
    /\ holder = [f \in LockPaths |-> {}]
    /\ probe = NoProbe
    /\ exitStatus = -1
    /\ errlog = <<>>

InitApi ==
    /\ InitCommon
    /\ pc = "idle"
    /\ recipe \in BOOLEAN
    /\ argv = <<>>
    /\ container_name = ""

\* the arguments the calls of SpecApi draw from; SpecCmd draws from the wide sets
ApiCmd == <<"/data/build/odoo-bin", "-i", "web">>
ApiPorts == {PyNone, PyInt("8069")}

StopNames == Names \cup {"xyxyxyxyxy"}

ApiDockerRun ==
    /\ pc = "idle"
    /\ nextPid <= MaxRuns
    /\ \E b \in BuildDirs, n \in Names, port \in ApiPorts :
        DockerRunEnter(b, ApiCmd, n, port, PyNone, FALSE, "idle", "idle")

ApiDockerStop(n) ==
    /\ pc = "idle"
    /\ DockerStop(n, "idle", "idle")

ApiDockerBuild(b) ==
    /\ pc = "idle"
    /\ DockerBuild(b, "idle", "idle")

ApiChild ==
    \E p \in Pids : ChildExec(p) \/ ClientStart(p) \/ ClientFail(p) \/ ContainerExit(p)

NextApi ==
    \/ ApiDockerRun
    \/ DockerRunPrepare
    \/ DockerRunBuild
    \/ DockerRunLaunch
    \/ DockerRunReturn
    \/ \E n \in StopNames : ApiDockerStop(n)
    \/ \E b \in BuildDirs : ApiDockerBuild(b)
    \/ ApiChild

SpecApi == InitApi /\ [][NextApi]_vars

----------------------------------------------------------------------------
(* SpecCmd: one docker_run call, its arguments drawn from the wide sets *)

CmdDockerRun ==
    /\ pc = "idle"
    /\ nextPid = 1
    /\ \E b \in BuildDirs, cmd \in OdooCmds, n \in Names, port \in Ports,
          cpu \in CpuLimits :
        DockerRunEnter(b, cmd, n, port, cpu, FALSE, "idle", "idle")

NextCmd ==
    \/ CmdDockerRun
    \/ DockerRunPrepare
    \/ DockerRunBuild
    \/ DockerRunLaunch
    \/ DockerRunReturn
    \/ ApiChild

SpecCmd == InitApi /\ [][NextCmd]_vars

----------------------------------------------------------------------------
(* SpecMain: the self-test, lines 79-160 *)

\* sys.argv of length n; sys.argv[0] is argv[1] here
ArgvOf(b, port, n) ==
    [i \in 1..n |->
        CASE i = 1 -> "container.py"
          [] i = 2 -> b
          [] i = 3 -> "12.0"
          [] i = 4 -> port
          [] i = 5 -> "db"
          [] OTHER -> "extra"]

MainPortArgs == {"8069", ""}
\* 'odoo-container-test-%s' % datetime.datetime.now().microsecond
MainNames == {"odoo-container-test-1", "odoo-container-test-2"}

InitMain ==
    /\ InitCommon
    /\ pc = "main_start"
    /\ recipe \in BOOLEAN
    /\ argv \in {ArgvOf(b, port, n) : b \in BuildDirs, port \in MainPortArgs, n \in 1..MaxArgc}
    /\ container_name = ""

build_dir == argv[2]
odoo_port == argv[4]
db_name == argv[5]
lock_path == PathJoin(PathJoin(build_dir, "logs"), "lock.txt")

\* line 106, with os.getlogin() = login
MainTestCmd(db, login) ==
    <<"/data/build/odoo-bin", "-d " \o db, "--addons-path=/data/build/addons",
      "--data-dir", "/data/build/datadir", "-r " \o login, "-i", "web",
      "--test-enable", "--stop-after-init", "--max-cron-threads=0">>

\* line 158
MainRunCmd(db, login) ==
    <<"/data/build/odoo-bin", "-d " \o db, "--db-filter", db \o ".*$",
      "--addons-path=/data/build/addons", "-r " \o login, "-i", "web",
      "--max-cron-threads=0", "--data-dir", "/data/build/datadir">>

Login == "odoo"

ArgsMissing_OffByOne(n) == n < 4
\* line 88: len(sys.argv) < 5
ArgsMissing(n) == n < 5

\* lines 80-90: logging set up, then the argument check
MainArgCheck ==
    /\ pc = "main_start"
    /\ IF ArgsMissing(Len(argv))
       THEN /\ errlog' = Append(errlog, "Missing arguments")
            /\ pc' = "exited"
            /\ exitStatus' = 1
       ELSE /\ pc' = "main_args"
            /\ UNCHANGED <<errlog, exitStatus>>
    /\ UNCHANGED <<frame, last, recipe, dirs, dockerfile, running, proc, nextPid,
                   issued, lastBuild, holder, probe, argv, container_name>>

\* lines 91-96: sys.argv[1..4] (IndexError when one is missing), then the
\* logs and datadir directories
MainSetup ==
    /\ pc = "main_args"
    /\ IF Len(argv) < 5
       THEN Goto("crashed") /\ UNCHANGED dirs
       ELSE /\ Goto("main_stop1")
            /\ dirs' = dirs \cup {<<build_dir, "logs">>, <<build_dir, "datadir">>}
    /\ UNCHANGED <<frame, last, recipe, dockerfile, running, proc, nextPid, issued,
                   lastBuild, holder, probe, argv, container_name, errlog>>

\* lines 98-103: stopping a container that does not run, failure expected
MainStop1 ==
    /\ pc = "main_stop1"
    /\ DockerStop("xyxyxyxyxy", "main_name1", "main_name1")

\* a statement that raises OSError when os.getlogin() fails, and otherwise
\* draws the container name and goes on to `next`
MainName(next) ==
    /\ \/ Goto("crashed") /\ UNCHANGED container_name
       \/ \E n \in MainNames : container_name' = n /\ Goto(next)
    /\ UNCHANGED <<frame, last, recipe, dirs, dockerfile, running, proc, nextPid,
                   issued, lastBuild, holder, probe, argv, errlog>>

\* time.sleep and logging: control moves on, nothing else changes
MainStep(next) ==
    /\ Goto(next)
    /\ UNCHANGED <<frame, last, recipe, dirs, dockerfile, running, proc, nextPid,
                   issued, lastBuild, holder, probe, argv, container_name, errlog>>

\* lines 106-108
MainName1 ==
    /\ pc = "main_name1"
    /\ MainName("main_run1")

\* line 109
MainRun1 ==
    /\ pc = "main_run1"
    /\ DockerRunEnter(build_dir, MainTestCmd(db_name, Login), container_name,
                      PyNone, PyNone, FALSE, "main_sleep30", "crashed")

\* lines 112-113
MainSleep30 ==
    /\ pc = "main_sleep30"
    /\ MainStep("main_stop2")

\* line 114: not inside a try
MainStop2 ==
    /\ pc = "main_stop2"
    /\ DockerStop(container_name, "main_sleep3", "crashed")

\* line 115
MainSleep3 ==
    /\ pc = "main_sleep3"
    /\ MainStep("main_name2")

\* lines 117-148; os.getlogin is not called here
MainName2 ==
    /\ pc = "main_name2"
    /\ \E n \in MainNames : container_name' = n
    /\ Goto("main_run2")
    /\ UNCHANGED <<frame, last, recipe, dirs, dockerfile, running, proc, nextPid,
                   issued, lastBuild, holder, probe, argv, errlog>>

\* line 149: preexec_fn=pfn
MainRun2 ==
    /\ pc = "main_run2"
    /\ DockerRunEnter(build_dir, MainTestCmd(db_name, Login), container_name,
                      PyNone, PyNone, TRUE, "main_sleep1", "crashed")

\* line 150: time.sleep(1), "give time for the lock"
MainSleep1 ==
    /\ pc = "main_sleep1"
    /\ MainStep("main_poll")

\* line 152: locked(lock_path) is called
MainProbeOpen ==
    /\ pc = "main_poll"
    /\ ProbeOpen(lock_path)

\* line 152: the loop test on the value locked() returned
MainLoopTest ==
    /\ pc = "main_poll"
    /\ probe.pc = "done"
    /\ probe' = [probe EXCEPT !.pc = "idle"]
    /\ Goto(IF probe.result THEN "main_sleep10" ELSE "main_name3")
    /\ UNCHANGED <<frame, last, recipe, dirs, dockerfile, running, proc, nextPid,
                   issued, lastBuild, holder, argv, container_name, errlog>>

\* lines 153-154
MainSleep10 ==
    /\ pc = "main_sleep10"
    /\ MainStep("main_poll")

\* lines 157-159
MainName3 ==
    /\ pc = "main_name3"
    /\ MainName("main_run3")

\* line 160
MainRun3 ==
    /\ pc = "main_run3"
    /\ DockerRunEnter(build_dir, MainRunCmd(db_name, Login), container_name,
                      PyStr(odoo_port), PyInt("300"), FALSE, "main_end", "crashed")

\* the script ends
MainEnd ==
    /\ pc = "main_end"
    /\ pc' = "exited"
    /\ exitStatus' = 0
    /\ UNCHANGED <<frame, last, recipe, dirs, dockerfile, running, proc, nextPid,
                   issued, lastBuild, holder, probe, argv, container_name, errlog>>

MainChild ==
    \E p \in Pids :
        \/ ChildPfnDetach(p) \/ ChildPfnLock(p) \/ ChildExec(p)
        \/ ClientStart(p) \/ ClientFail(p) \/ ContainerExit(p)

NextMain ==
    \/ MainArgCheck
    \/ MainSetup
    \/ MainStop1
    \/ MainName1
    \/ MainRun1
    \/ DockerRunPrepare
    \/ DockerRunBuild
    \/ DockerRunLaunch
    \/ DockerRunReturn
    \/ MainSleep30
    \/ MainStop2
    \/ MainSleep3
    \/ MainName2
    \/ MainRun2
    \/ MainSleep1
    \/ MainProbeOpen
    \/ ProbeLockf
    \/ ProbeClose
    \/ MainLoopTest
    \/ MainSleep10
    \/ MainName3
    \/ MainRun3
    \/ MainEnd
    \/ MainChild

SpecMain == InitMain /\ [][NextMain]_vars

----------------------------------------------------------------------------
(* Claims about the calls: SpecApi *)

\* C1: docker_stop(name) raises CalledProcessError whenever no container of
\* that name is running, and otherwise returns normally with the container no
\* longer running, after any sequence of docker_run / docker_stop calls.
C1_StopContract ==
    [][\A n \in StopNames :
          ApiDockerStop(n) =>
              /\ last'.op = "docker_stop" /\ last'.arg = n
              /\ IF n \in running
                 THEN last'.raised = "" /\ n \notin running'
                 ELSE last'.raised = "CalledProcessError" /\ running' = running]_vars

\* a docker_stop has raised for a name whose container ran and ended before
C1_Witness ==
    /\ last.op = "docker_stop"
    /\ last.raised = "CalledProcessError"
    /\ \E p \in Pids : proc[p].name = last.arg /\ proc[p].st = "exited"

\* C3: docker_run never waits for the container: once the child has exec'd,
\* the return of docker_run is possible whatever the container does.
C3_NoWaitForExit ==
    (pc = "run_started" /\ proc[frame.pid].st \in {"spawned", "running"})
        => ENABLED DockerRunReturn

\* docker_run has returned the pid of a child whose container is still running
C3_Witness ==
    /\ pc = "idle"
    /\ last.op = "docker_run" /\ last.raised = "" /\ last.pid \in Pids
    /\ proc[last.pid].st = "running"

InArgv(vec, x) == \E i \in DOMAIN vec : vec[i] = x

\* C4 as stated: docker_build(build_dir) copies the Dockerfile into
\* build_dir/docker, creating it, then requests a build from that directory
\* tagged odoo:runbot_tests.
C4_Original ==
    [][\A b \in BuildDirs :
          (ApiDockerBuild(b) /\ recipe) =>
              /\ <<b, "docker">> \in dirs'
              /\ b \in dockerfile'
              /\ lastBuild'.cwd = PathJoin(b, "docker")
              /\ InArgv(lastBuild'.argv, ImageTag)]_vars

\* C5 as stated: a failed image build propagates, so docker_run never goes
\* on to launch a container after its image build has failed.
C5_Original ==
    pc \in {"run_launch", "run_started"} => frame.build_rc = 0

----------------------------------------------------------------------------
(* Claims about the command line: SpecCmd *)

Count(vec, x) == Cardinality({i \in DOMAIN vec : vec[i] = x})

\* C6 as stated: without exposed_port the launch vector holds no -p; with
\* any supplied exposed_port it holds exactly one -p, followed by
\* 127.0.0.1:<exposed_port>:8069.
C6_Original ==
    pc = "run_started" =>
        LET v == frame.docker_command
        IN  IF frame.exposed_port = PyNone
            THEN Count(v, "-p") = 0
            ELSE /\ Count(v, "-p") = 1
                 /\ \E i \in 1..(Len(v) - 1) :
                       /\ v[i] = "-p"
                       /\ v[i + 1] = "127.0.0.1:" \o Fmt(frame.exposed_port) \o ":8069"

\* the tokens of a command, each followed by a single space but the last
RECURSIVE SpaceJoined(_)
SpaceJoined(tokens) ==
    IF Len(tokens) = 0 THEN ""
    ELSE IF Len(tokens) = 1 THEN tokens[1]
    ELSE SpaceJoined(SubSeq(tokens, 1, Len(tokens) - 1)) \o " " \o tokens[Len(tokens)]

\* C7: the in-container command is `cd /data/build`, the install step and the
\* caller's tokens joined by single spaces, in this order, chained with ` && `;
\* it is what docker_run hands to /bin/bash -c.
C7_CmdChain ==
    pc \in RunPcs =>
        /\ frame.run_cmd =
              "cd /data/build" \o " && " \o InstallStep \o " && "
                  \o SpaceJoined(frame.odoo_cmd)
        /\ pc = "run_started" =>
              LET v == frame.docker_command
              IN  SubSeq(v, Len(v) - 2, Len(v)) = <<"/bin/bash", "-c", frame.run_cmd>>

\* a command of several tokens has been launched
C7_Witness ==
    /\ pc = "run_started"
    /\ Len(frame.odoo_cmd) >= 2
    /\ frame.odoo_cmd[1] # frame.odoo_cmd[2]

----------------------------------------------------------------------------
(* SpecLock: the main process probes, forked children lock *)

InitLock ==
    /\ InitCommon
    /\ pc = "idle"
    /\ recipe = TRUE
    /\ argv = <<>>
    /\ container_name = ""

\* a child is forked that runs pfn, as Popen(preexec_fn=pfn) forks it
LockFork(filename) ==
    /\ nextPid <= MaxRuns
    /\ proc' = [proc EXCEPT ![nextPid] =
                    [st |-> "forked", name |-> "", pre |-> TRUE, path |-> filename]]
    /\ nextPid' = nextPid + 1
    /\ UNCHANGED <<pc, frame, last, recipe, dirs, dockerfile, running, issued,
                   lastBuild, holder, probe, argv, container_name, exitStatus, errlog>>

LockChild ==
    \E p \in Pids : ChildPfnDetach(p) \/ ChildPfnLock(p) \/ ChildExec(p) \/ ClientFail(p)

\* locked() returns; probe.result is the value returned
LockProbeReturn ==
    /\ probe.pc = "done"
    /\ probe' = [probe EXCEPT !.pc = "idle"]
    /\ UNCHANGED <<pc, frame, last, recipe, dirs, dockerfile, running, proc,
                   nextPid, issued, lastBuild, holder, argv, container_name, exitStatus, errlog>>

NextLock ==
    \/ \E f \in LockPaths : LockFork(f)
    \/ LockChild
    \/ \E f \in LockPaths : ProbeOpen(f)
    \/ ProbeLockf
    \/ ProbeClose
    \/ LockProbeReturn

SpecLock == InitLock /\ [][NextLock]_vars

----------------------------------------------------------------------------
(* Claims about locked(): SpecLock *)

\* a process other than the prober holds the lock of the file
OtherHolds(f) == holder[f] \ {MainPid} # {}

\* the step that settles what a probe returns: the failed open, or the lockf
ProbeDecides ==
    \/ probe.pc = "idle" /\ probe'.pc = "done"
    \/ probe.pc = "opened" /\ probe'.pc \in {"acquired", "busy"}

\* C2 as stated: every probe made while another process holds the lock
\* returns true.
C2_Original ==
    [][(ProbeDecides /\ OtherHolds(probe'.path)) => probe'.result]_vars

\* C2 amended: a probe returns true exactly when it could open the file and
\* another process holds the lock at its lockf: false for a path nobody has
\* locked, false again once the holder has exited, and false whenever the
\* open fails.
C2_ProbeResult ==
    /\ [][ProbeDecides => (probe'.result = (probe'.fd /\ OtherHolds(probe'.path)))]_vars
    /\ [][probe.pc \in {"acquired", "busy", "done"} => probe'.result = probe.result]_vars

\* a probe has returned true and the holder it met is still there
C2_Witness ==
    /\ probe.pc = "idle"
    /\ probe.fd /\ probe.result
    /\ OtherHolds(probe.path)

\* C9: a probe never changes who holds the lock: outside its own
\* acquire-and-release the prober holds nothing, its steps leave every other
\* process's lock in place, and a lock() by another process after the probes
\* succeeds when no other process holds the file.
C9_ProbeFrame ==
    /\ [](probe.pc \in {"idle", "opened", "busy", "done"} =>
              \A f \in LockPaths : MainPid \notin holder[f])
    /\ [][probe' # probe =>
              \A f \in LockPaths : holder'[f] \ {MainPid} = holder[f] \ {MainPid}]_vars
    /\ [][\A p \in Pids :
              (/\ ChildPfnLock(p)
               /\ probe.pc \in {"idle", "done"}
               /\ ~OtherHolds(proc[p].path))
                  => p \in holder'[proc[p].path]]_vars

\* a probe took and released the lock, and a child locked the file afterwards
C9_Witness ==
    /\ probe.pc = "idle"
    /\ probe.fd /\ ~probe.result
    /\ OtherHolds(probe.path)

----------------------------------------------------------------------------
(* Claims about the self-test: SpecMain *)

\* C8: started with fewer than the four positional arguments, the self-test
\* logs the error and exits with a non-zero status before anything else: no
\* directory is created, no docker command issued, no child forked.
C8_MissingArgs ==
    Len(argv) < 5 =>
        /\ pc \in {"main_start", "exited"}
        /\ dirs = {} /\ issued = {} /\ nextPid = 1
        /\ pc = "main_start" => exitStatus = -1 /\ errlog = <<>>
        /\ pc = "exited" => exitStatus = 1 /\ errlog = <<"Missing arguments">>

\* the self-test has exited with three of the four arguments given
C8_Witness ==
    /\ Len(argv) = 4
    /\ pc = "exited"
    /\ exitStatus = 1

Alive(p) == proc[p].st \notin {"none", "exited"}

\* C10 as stated: the child forked with pfn holds the lock file from before
\* docker_run returns until it exits, so the third docker_run is never
\* invoked while that child is alive.
C10_Original ==
    \A p \in Pids :
        (proc[p].pre /\ Alive(p)) =>
            /\ pc \in {"main_sleep1", "main_poll", "main_sleep10"} => p \in holder[lock_path]
            /\ ~(pc \in RunPcs /\ frame.ret = "main_end")

====
